---- MODULE Spec2Model ----
(***************************************************************************)
(* A model of oxidoc's documentation item store                            *)
(* (src/convert/doc_containers.rs): the DocItem record NewDocTemp_, its    *)
(* classification (get_type), its subitem listing (subitems), its path     *)
(* derivation (to_filepath), its bincode encoding and save.                *)
(*                                                                         *)
(* Strings are TLA+ strings, a path is the sequence of its components, a   *)
(* rendered text is the sequence of its lines, and a byte string is a      *)
(* sequence of tokens (a u64/u32/u8 number or the bytes of one string).    *)
(***************************************************************************)
EXTENDS Integers, Sequences, FiniteSets, TLC

VARIABLES
    item,        \* the NewDocTemp_ under construction / being processed
    crate,       \* the CrateInfo the items of this run belong to
    pc,          \* position inside save(): idle (not running), resolved, pathed, dirs, serialized
    path,        \* save's local `path`
    data,        \* save's local `data`
    result,      \* what the last save returned: none, Ok, Err
    steps,       \* the steps the running (or last) save attempted, in order
    dirs,        \* the directories that exist
    files,       \* the files that exist: path -> contents
    log,         \* the saves that returned, oldest first
    before,      \* the directories and files that existed when the running save was called
    classified,  \* the DocTypes get_type returned for the current item
    rendered,    \* Some(the lines subitems() returned for the current item), or None
    filepath,    \* Some(the path to_filepath() returned for the current item), or None
    shown,       \* Some(the text Display wrote for the item's visibility), or None
    decoded      \* Some(what deserializing `data` gave), or None

vars == <<item, crate, pc, path, data, result, steps, dirs, files, log, before,
          classified, rendered, filepath, shown, decoded>>

(***************************************************************************)
(* Bounds of the model.                                                    *)
(***************************************************************************)
MaxDepth == 2    \* the longest mod_path
MaxKeys  == 2    \* the most categories a links map holds
MaxLinks == 2    \* the most links a links map holds in all
MaxSaves == 2    \* the most saves of one run

(***************************************************************************)
(* The data model.                                                         *)
(***************************************************************************)
DocInnerDataTags ==
    <<"FnDoc", "ModuleDoc", "EnumDoc", "StructDoc", "ConstDoc", "TraitDoc", "TraitItemDoc">>

TraitItemKinds == <<"Const", "Method", "Type", "Macro">>

DocTypes ==
    <<"Function", "Module", "Enum", "Variant", "Struct", "StructField", "Const",
      "Trait", "AssocConst", "TraitItemMethod", "TraitItemConst", "TraitItemType",
      "TraitItemMacro", "AssocType", "Macro">>

Visibilities == <<"Public", "Private", "Restricted">>

Range(s) == {s[i] : i \in 1..Len(s)}

IndexOf(s, x) == CHOOSE i \in 1..Len(s) : s[i] = x

\* Identifiers: item names, module path segments, link names.
Names == {"foo", "bar"}
Segments == <<"a", "b", "c", "d">>
LinkNames == {"x", "y"}
Crates == {"alpha", "beta"}

\* A ModPath is the sequence of its segments.
ModPaths == {SubSeq(Segments, 1, k) : k \in 0..MaxDepth} \cup {<<Segments[2]>>}

\* The payload a DocInnerData variant wraps: the trait item's node (its
\* TraitItemKind) and the rest of it, which nothing here looks into.
InnerData ==
    {[tag |-> t, node |-> "NA", body |-> b] :
        t \in Range(DocInnerDataTags) \ {"TraitItemDoc"}, b \in {0, 1}}
    \cup {[tag |-> "TraitItemDoc", node |-> k, body |-> b] :
        k \in Range(TraitItemKinds), b \in {0, 1}}

DocLinks == {[name |-> n, path |-> p] : n \in LinkNames, p \in {<<"a">>}}

NoLinks == [c \in {} |-> <<>>]

\* Option<T>: None, or Some(x).
None == <<"None">>
Some(x) == <<"Some", x>>
is_some(o) == o[1] = "Some"
unwrap(o) == o[2]

VisibilityOptions == {None} \cup {Some(v) : v \in Range(Visibilities)}

DocItems(names, paths, inners, viss, linkss) ==
    {[name |-> n, attrs |-> 0, mod_path |-> p, inner_data |-> d,
      visibility |-> v, links |-> l] :
        n \in names, p \in paths, d \in inners, v \in viss, l \in linkss}

(***************************************************************************)
(* impl Display for Visibility                                             *)
(***************************************************************************)
Visibility_fmt_PubForAll(v) == "pub"

Visibility_fmt(v) == IF v = "Public" THEN "pub" ELSE ""

(***************************************************************************)
(* NewDocTemp_::get_type                                                   *)
(***************************************************************************)
get_type_TraitItemFallback(it) ==
    CASE it.inner_data.tag = "FnDoc"     -> "Function"
      [] it.inner_data.tag = "ModuleDoc" -> "Module"
      [] it.inner_data.tag = "EnumDoc"   -> "Enum"
      [] it.inner_data.tag = "StructDoc" -> "Struct"
      [] it.inner_data.tag = "ConstDoc"  -> "Const"
      [] it.inner_data.tag = "TraitDoc"  -> "Trait"
      [] OTHER                           -> "TraitItemMethod"

get_type(it) ==
    CASE it.inner_data.tag = "FnDoc"     -> "Function"
      [] it.inner_data.tag = "ModuleDoc" -> "Module"
      [] it.inner_data.tag = "EnumDoc"   -> "Enum"
      [] it.inner_data.tag = "StructDoc" -> "Struct"
      [] it.inner_data.tag = "ConstDoc"  -> "Const"
      [] it.inner_data.tag = "TraitDoc"  -> "Trait"
      [] it.inner_data.tag = "TraitItemDoc" ->
            CASE it.inner_data.node = "Const"  -> "TraitItemConst"
              [] it.inner_data.node = "Method" -> "TraitItemMethod"
              [] it.inner_data.node = "Type"   -> "TraitItemType"
              [] it.inner_data.node = "Macro"  -> "TraitItemMacro"

(***************************************************************************)
(* impl Display for DocType                                                *)
(***************************************************************************)
DocType_fmt(c) ==
    CASE c = "Function"        -> "Functions"
      [] c = "Module"          -> "Modules"
      [] c = "Enum"            -> "Enums"
      [] c = "Variant"         -> "Variants"
      [] c = "Struct"          -> "Structs"
      [] c = "StructField"     -> "Struct Fields"
      [] c = "Const"           -> "Constants"
      [] c = "Trait"           -> "Traits"
      [] c = "AssocConst"      -> "Associated Constants"
      [] c = "TraitItemConst"  -> "Trait Constants"
      [] c = "TraitItemMethod" -> "Trait Methods"
      [] c = "TraitItemType"   -> "Trait Types"
      [] c = "TraitItemMacro"  -> "Trait Macros"
      [] c = "AssocType"       -> "Associated Types"
      [] c = "Macro"           -> "Macros"

(***************************************************************************)
(* NewDocTemp_::subitems and subitems_in_category                          *)
(***************************************************************************)
\* The `categories` vector of subitems().
categories(it) ==
    CASE it.inner_data.tag = "ModuleDoc" ->
            <<"Function", "Module", "Enum", "Struct", "Trait", "Const">>
      [] it.inner_data.tag = "TraitDoc" ->
            <<"AssocConst", "TraitItemMethod", "AssocType", "Macro">>
      [] it.inner_data.tag = "StructDoc" ->
            <<"StructField", "Function", "AssocConst", "AssocType", "Macro">>
      [] it.inner_data.tag = "EnumDoc" ->
            <<"Function", "Variant">>
      [] OTHER -> <<>>

LinkNamesOf(items) == [i \in 1..Len(items) |-> items[i].name]

subitems_in_category_NoEmptyTest(it, type_) ==
    IF type_ \in DOMAIN it.links
    THEN Some(<<"==== " \o DocType_fmt(type_)>> \o LinkNamesOf(it.links[type_]))
    ELSE None

subitems_in_category(it, type_) ==
    IF type_ \in DOMAIN it.links
    THEN IF Len(it.links[type_]) > 0
         THEN Some(<<"==== " \o DocType_fmt(type_)>> \o LinkNamesOf(it.links[type_]))
         ELSE None
    ELSE None

\* join("\n\n") of the sections: a blank line between two of them.
RECURSIVE JoinBlank(_)
JoinBlank(ss) ==
    IF Len(ss) = 0 THEN <<>>
    ELSE IF Len(ss) = 1 THEN ss[1]
    ELSE ss[1] \o <<"">> \o JoinBlank(Tail(ss))

RECURSIVE FilterMapSome(_)
FilterMapSome(os) ==
    IF Len(os) = 0 THEN <<>>
    ELSE IF is_some(Head(os)) THEN <<unwrap(Head(os))>> \o FilterMapSome(Tail(os))
    ELSE FilterMapSome(Tail(os))

\* A rendering that walks the DocType enumeration in its declaration order
\* instead of the per-kind vector.
subitems_EnumOrder(it) ==
    LET inList == SelectSeq(DocTypes, LAMBDA c : c \in Range(categories(it)))
    IN JoinBlank(FilterMapSome(
           [i \in 1..Len(inList) |-> subitems_in_category(it, inList[i])]))

subitems(it) ==
    LET cats == categories(it)
    IN JoinBlank(FilterMapSome(
           [i \in 1..Len(cats) |-> subitems_in_category(it, cats[i])]))

(***************************************************************************)
(* Path derivation.                                                        *)
(***************************************************************************)
RootPlaceholder == "{{root}}"

\* ModPath::to_filepath: the nested directory path of the segments, under
\* the placeholder root.
ModPath_to_filepath(mp) == <<RootPlaceholder>> \o mp

get_doc_file_prefix_TraitItemPrefixed(d) ==
    CASE d.tag = "ModuleDoc" -> "mdesc-"
      [] d.tag = "EnumDoc"   -> "edesc-"
      [] d.tag = "StructDoc" -> "sdesc-"
      [] d.tag = "ConstDoc"  -> "cdesc-"
      [] d.tag \in {"TraitDoc", "TraitItemDoc"} -> "tdesc-"
      [] d.tag = "FnDoc" -> ""

get_doc_file_prefix_SharedDesc(d) ==
    CASE d.tag = "ModuleDoc" -> "mdesc-"
      [] d.tag = "EnumDoc"   -> "edesc-"
      [] d.tag = "StructDoc" -> "sdesc-"
      [] d.tag = "ConstDoc"  -> "sdesc-"
      [] d.tag = "TraitDoc"  -> "tdesc-"
      [] d.tag \in {"FnDoc", "TraitItemDoc"} -> ""

get_doc_file_prefix(d) ==
    CASE d.tag = "ModuleDoc" -> "mdesc-"
      [] d.tag = "EnumDoc"   -> "edesc-"
      [] d.tag = "StructDoc" -> "sdesc-"
      [] d.tag = "ConstDoc"  -> "cdesc-"
      [] d.tag = "TraitDoc"  -> "tdesc-"
      [] d.tag \in {"FnDoc", "TraitItemDoc"} -> ""

get_doc_filename(it) == get_doc_file_prefix(it.inner_data) \o it.name \o ".odoc"

\* Path::strip_prefix: the rest of the path when it starts with the prefix.
strip_prefix(p, prefix) ==
    IF Len(p) >= Len(prefix) /\ SubSeq(p, 1, Len(prefix)) = prefix
    THEN Some(SubSeq(p, Len(prefix) + 1, Len(p)))
    ELSE None

to_filepath_NoStrip(it) == Append(ModPath_to_filepath(it.mod_path), get_doc_filename(it))

\* unwrap() of a None aborts the program.
Panic == <<"panic">>

to_filepath(it) ==
    LET pushed == Append(ModPath_to_filepath(it.mod_path), get_doc_filename(it))
        stripped == strip_prefix(pushed, <<RootPlaceholder>>)
    IN IF is_some(stripped) THEN unwrap(stripped) ELSE Panic

(***************************************************************************)
(* The bincode encoding of a NewDocTemp_ (derive(Serialize, Deserialize)): *)
(* the fields in declaration order, a string or a sequence or a map as its *)
(* u64 length and its elements, an enum as its u32 variant index and its   *)
(* payload, an Option as a u8 tag and its value.                           *)
(***************************************************************************)
U(n) == [t |-> "int", n |-> n, s |-> ""]
B(s) == [t |-> "bytes", n |-> 0, s |-> s]

RECURSIVE Flatten(_)
Flatten(ss) == IF Len(ss) = 0 THEN <<>> ELSE Head(ss) \o Flatten(Tail(ss))

EncStr(s) == <<U(Len(s)), B(s)>>

EncModPath(mp) == <<U(Len(mp))>> \o Flatten([i \in 1..Len(mp) |-> EncStr(mp[i])])

EncDocLink(l) == EncStr(l.name) \o EncModPath(l.path)

EncDocType(c) == <<U(IndexOf(DocTypes, c) - 1)>>

\* The payload types (Function, Module, ..., TraitItem) and Attributes are
\* encoded by their own derived impls: the trait item's node and the rest.
EncPayload(d) ==
    IF d.tag = "TraitItemDoc"
    THEN <<U(IndexOf(TraitItemKinds, d.node) - 1), U(d.body)>>
    ELSE <<U(d.body)>>

EncAttributes(a) == <<U(a)>>

\* An encoding that numbers ModuleDoc before FnDoc.
EncInnerData_SwappedIndex(d) ==
    <<U(IF d.tag = "FnDoc" THEN 1
        ELSE IF d.tag = "ModuleDoc" THEN 0
        ELSE IndexOf(DocInnerDataTags, d.tag) - 1)>> \o EncPayload(d)

EncInnerData(d) == <<U(IndexOf(DocInnerDataTags, d.tag) - 1)>> \o EncPayload(d)

EncVisibility(v) ==
    IF is_some(v) THEN <<U(1), U(IndexOf(Visibilities, unwrap(v)) - 1)>> ELSE <<U(0)>>

\* `order` is the order in which the HashMap yields its keys.
EncLinks(links, order) ==
    <<U(Len(order))>> \o
    Flatten([i \in 1..Len(order) |->
        EncDocType(order[i]) \o <<U(Len(links[order[i]]))>> \o
        Flatten([j \in 1..Len(links[order[i]]) |-> EncDocLink(links[order[i]][j])])])

serialize(it, order) ==
    EncStr(it.name) \o EncAttributes(it.attrs) \o EncModPath(it.mod_path) \o
    EncInnerData(it.inner_data) \o EncVisibility(it.visibility) \o
    EncLinks(it.links, order)

\* Decoders: from the bytes b at position p, the value v and the position
\* after it.
DecStr(b, p) == [v |-> b[p + 1].s, p |-> p + 2]

RECURSIVE DecStrs(_, _, _)
DecStrs(b, p, n) ==
    IF n = 0 THEN [v |-> <<>>, p |-> p]
    ELSE LET h == DecStr(b, p)
             r == DecStrs(b, h.p, n - 1)
         IN [v |-> <<h.v>> \o r.v, p |-> r.p]

DecModPath(b, p) == DecStrs(b, p + 1, b[p].n)

DecDocLink(b, p) ==
    LET n == DecStr(b, p)
        m == DecModPath(b, n.p)
    IN [v |-> [name |-> n.v, path |-> m.v], p |-> m.p]

RECURSIVE DecDocLinks(_, _, _)
DecDocLinks(b, p, n) ==
    IF n = 0 THEN [v |-> <<>>, p |-> p]
    ELSE LET h == DecDocLink(b, p)
             r == DecDocLinks(b, h.p, n - 1)
         IN [v |-> <<h.v>> \o r.v, p |-> r.p]

\* The entries are inserted into a fresh HashMap one after the other.
RECURSIVE DecEntries(_, _, _, _)
DecEntries(b, p, n, map) ==
    IF n = 0 THEN [v |-> map, p |-> p]
    ELSE LET key == DocTypes[b[p].n + 1]
             val == DecDocLinks(b, p + 2, b[p + 1].n)
         IN DecEntries(b, val.p, n - 1, (key :> val.v) @@ map)

DecLinks(b, p) == DecEntries(b, p + 1, b[p].n, NoLinks)

DecPayload(b, p, tag) ==
    IF tag = "TraitItemDoc"
    THEN [v |-> [tag |-> tag, node |-> TraitItemKinds[b[p].n + 1], body |-> b[p + 1].n],
          p |-> p + 2]
    ELSE [v |-> [tag |-> tag, node |-> "NA", body |-> b[p].n], p |-> p + 1]

DecInnerData(b, p) == DecPayload(b, p + 1, DocInnerDataTags[b[p].n + 1])

DecVisibility(b, p) ==
    IF b[p].n = 0 THEN [v |-> None, p |-> p + 1]
    ELSE [v |-> Some(Visibilities[b[p + 1].n + 1]), p |-> p + 2]

deserialize(b) ==
    LET name  == DecStr(b, 1)
        attrs == [v |-> b[name.p].n, p |-> name.p + 1]
        mp    == DecModPath(b, attrs.p)
        inner == DecInnerData(b, mp.p)
        vis   == DecVisibility(b, inner.p)
        links == DecLinks(b, vis.p)
    IN [name |-> name.v, attrs |-> attrs.v, mod_path |-> mp.v,
        inner_data |-> inner.v, visibility |-> vis.v, links |-> links.v]

\* The orders in which a HashMap with the keys ks may yield them.
RECURSIVE Orders(_)
Orders(ks) ==
    IF ks = {} THEN {<<>>}
    ELSE UNION {{<<k>> \o o : o \in Orders(ks \ {k})} : k \in ks}

(***************************************************************************)
(* The collaborators of save: the store and the file system.               *)
(***************************************************************************)
\* store::get_crate_doc_path: the documentation root of the crate.
get_crate_doc_path(c) == <<"doc", c>>

\* Path::parent.
parent(p) == SubSeq(p, 1, Len(p) - 1)

\* The path and every ancestor of it.
Ancestors(p) == {SubSeq(p, 1, k) : k \in 1..Len(p)}

\* fs::create_dir in its place: the last directory alone.
create_dir_LeafOnly(ds, p, ok, k) == IF ok THEN ds \cup {p} ELSE ds

\* fs::create_dir_all: every missing directory down to p is created; a
\* failure leaves those created before it.
create_dir_all(ds, p, ok, k) ==
    IF ok THEN ds \cup Ancestors(p) ELSE ds \cup Ancestors(SubSeq(p, 1, k))

NoFiles == [p \in {} |-> <<>>]

\* store::write_bincode_data: the file is created or truncated and the bytes
\* written; a failure leaves the file as it was (left = -1) or incomplete,
\* holding the first `left` bytes.
write_bincode_data(fs, bytes, p, ok, left) ==
    IF ok THEN (p :> bytes) @@ fs
    ELSE IF left < 0 THEN fs
    ELSE (p :> SubSeq(bytes, 1, left)) @@ fs

\* What a failed write may leave of the bytes.
Incomplete(bytes) == {-1, 0, Len(bytes) \div 2}

(***************************************************************************)
(* The producer of the items: a record is built, its links are filled in.  *)
(***************************************************************************)
NoOutputs ==
    /\ classified' = {}
    /\ rendered' = None
    /\ filepath' = None
    /\ shown' = None
    /\ decoded' = None
    /\ data' = <<>>

KeepOutputs == UNCHANGED <<classified, rendered, filepath, shown, decoded>>

KeepStore == UNCHANGED <<crate, pc, path, result, steps, dirs, files, log, before>>

CountLinks(links) ==
    LET RECURSIVE Sum(_)
        Sum(ks) == IF ks = {} THEN 0
                   ELSE LET k == CHOOSE x \in ks : TRUE
                        IN Len(links[k]) + Sum(ks \ {k})
    IN Sum(DOMAIN links)

\* links.insert(c, vec![])
InsertCategory(cats) ==
    /\ pc = "idle"
    /\ Cardinality(DOMAIN item.links) < MaxKeys
    /\ \E c \in cats \ DOMAIN item.links :
          item' = [item EXCEPT !.links = (c :> <<>>) @@ @]
    /\ NoOutputs
    /\ KeepStore

\* links[c].push(l)
PushLink ==
    /\ pc = "idle"
    /\ CountLinks(item.links) < MaxLinks
    /\ \E c \in DOMAIN item.links, l \in DocLinks :
          item' = [item EXCEPT !.links[c] = Append(@, l)]
    /\ NoOutputs
    /\ KeepStore

(***************************************************************************)
(* The operations on a record.                                             *)
(***************************************************************************)
\* Each operation leaves its result; the results of the operations before it
\* are dropped.
Classify ==
    /\ pc = "idle"
    /\ classified' = classified \cup {get_type(item)}
    /\ rendered' = None /\ filepath' = None /\ shown' = None
    /\ decoded' = None /\ data' = <<>>
    /\ UNCHANGED item
    /\ KeepStore

Render ==
    /\ pc = "idle"
    /\ rendered' = Some(subitems(item))
    /\ classified' = {} /\ filepath' = None /\ shown' = None
    /\ decoded' = None /\ data' = <<>>
    /\ UNCHANGED item
    /\ KeepStore

ToFilepath ==
    /\ pc = "idle"
    /\ filepath' = Some(to_filepath(item))
    /\ classified' = {} /\ rendered' = None /\ shown' = None
    /\ decoded' = None /\ data' = <<>>
    /\ UNCHANGED item
    /\ KeepStore

ShowVisibility ==
    /\ pc = "idle"
    /\ is_some(item.visibility)
    /\ shown' = Some(Visibility_fmt(unwrap(item.visibility)))
    /\ classified' = {} /\ rendered' = None /\ filepath' = None
    /\ decoded' = None /\ data' = <<>>
    /\ UNCHANGED item
    /\ KeepStore

Serialize ==
    /\ pc = "idle"
    /\ \E order \in Orders(DOMAIN item.links) : data' = serialize(item, order)
    /\ classified' = {} /\ rendered' = None /\ filepath' = None
    /\ shown' = None /\ decoded' = None
    /\ UNCHANGED item
    /\ KeepStore

Deserialize ==
    /\ pc = "idle"
    /\ data # <<>>
    /\ decoded' = Some(deserialize(data))
    /\ UNCHANGED <<item, data, classified, rendered, filepath, shown>>
    /\ KeepStore

(***************************************************************************)
(* NewDocTemp_::save, one step at a time.                                  *)
(***************************************************************************)
\* The `?` operator: go on when the step succeeded, return its error
\* otherwise.
Question_GoOn(ok, next) == next

Question(ok, next) == IF ok THEN next ELSE "idle"

Attempt(name, ok) == [step |-> name, ok |-> ok]

Returned(res, at) == [item |-> item, result |-> res, path |-> at, steps |-> steps']

\* What every fallible step but the last does with its outcome.
Propagate(ok, next, at) ==
    /\ pc' = Question(ok, next)
    /\ result' = IF pc' = "idle" THEN "Err" ELSE result
    /\ log' = IF pc' = "idle" THEN Append(log, Returned("Err", at)) ELSE log

\* let mut path = store::get_crate_doc_path(crate_info)?;
SaveResolve ==
    /\ pc = "idle"
    /\ result = "none"
    /\ before' = [dirs |-> dirs, files |-> files]
    /\ \E ok \in BOOLEAN :
          /\ steps' = <<Attempt("resolve", ok)>>
          /\ path' = IF ok THEN get_crate_doc_path(crate) ELSE <<>>
          /\ Propagate(ok, "resolved", path')
    /\ data' = <<>>
    /\ UNCHANGED <<item, crate, dirs, files>>
    /\ KeepOutputs

\* path.push(self.to_filepath());
SavePush ==
    /\ pc = "resolved"
    /\ steps' = Append(steps, Attempt("path", TRUE))
    /\ IF to_filepath(item) = Panic
       THEN pc' = "panicked" /\ path' = path
       ELSE pc' = "pathed" /\ path' = path \o to_filepath(item)
    /\ UNCHANGED <<item, crate, data, result, dirs, files, log, before>>
    /\ KeepOutputs

\* fs::create_dir_all(path.parent().unwrap()).chain_err(..)?;
SaveCreateDirs ==
    /\ pc = "pathed"
    /\ \E ok \in BOOLEAN, k \in 0..(Len(path) - 2) :
          /\ steps' = Append(steps, Attempt("create_dir_all", ok))
          /\ dirs' = create_dir_all(dirs, parent(path), ok, k)
          /\ Propagate(ok, "dirs", path)
    /\ UNCHANGED <<item, crate, path, data, files, before>>
    /\ KeepOutputs

\* let data = bincode::serialize(self, Infinite).chain_err(..)?;
SaveSerialize ==
    /\ pc = "dirs"
    /\ \E ok \in BOOLEAN, order \in Orders(DOMAIN item.links) :
          /\ steps' = Append(steps, Attempt("serialize", ok))
          /\ data' = IF ok THEN serialize(item, order) ELSE <<>>
          /\ Propagate(ok, "serialized", path)
    /\ UNCHANGED <<item, crate, path, dirs, files, before>>
    /\ KeepOutputs

\* store::write_bincode_data(data, path)
SaveWrite ==
    /\ pc = "serialized"
    /\ \E ok \in BOOLEAN, left \in Incomplete(data) :
          /\ steps' = Append(steps, Attempt("write", ok))
          /\ files' = write_bincode_data(files, data, path, ok, left)
          /\ result' = IF ok THEN "Ok" ELSE "Err"
          /\ log' = Append(log, Returned(result', path))
    /\ pc' = "idle"
    /\ UNCHANGED <<item, crate, path, data, dirs, before>>
    /\ KeepOutputs

\* The next record of the crate is built once the last one was saved.
NextItem(S) ==
    /\ result # "none"
    /\ Len(log) < MaxSaves
    /\ pc = "idle"
    /\ item' \in S
    /\ pc' = "idle"
    /\ result' = "none"
    /\ steps' = <<>>
    /\ path' = <<>>
    /\ NoOutputs
    /\ UNCHANGED <<crate, dirs, files, log, before>>

(***************************************************************************)
(* The specifications.                                                     *)
(***************************************************************************)
InitWith(S, cs, ds) ==
    /\ item \in S
    /\ crate \in cs
    /\ pc = "idle"
    /\ path = <<>>
    /\ data = <<>>
    /\ result = "none"
    /\ steps = <<>>
    /\ dirs \in ds
    /\ files = NoFiles
    /\ log = <<>>
    /\ before = [dirs |-> {}, files |-> NoFiles]
    /\ classified = {}
    /\ rendered = None
    /\ filepath = None
    /\ shown = None
    /\ decoded = None

\* The records save is run on: every variant, without links and with some.
SomeLinks == ("Function" :> <<[name |-> "x", path |-> <<"a">>]>>)

SavedKinds ==
    {d \in InnerData : d.body = 0 /\ d.node \in {"NA", "Method"}}

SavedItems ==
    DocItems(Names, ModPaths, SavedKinds, {None, Some("Public")}, {NoLinks, SomeLinks})

\* The directories found when save is called: none, or a directory of the
\* documentation tree with those above it.
FoundDirs ==
    {{}} \cup {Ancestors(get_crate_doc_path(c) \o mp) : c \in Crates, mp \in ModPaths}
         \cup {Ancestors(<<"doc">>)}

\* One save, of any record, into any of these trees.
Init == InitWith(SavedItems, Crates, FoundDirs)

Next ==
    \/ SaveResolve
    \/ SavePush
    \/ SaveCreateDirs
    \/ SaveSerialize
    \/ SaveWrite

Spec == Init /\ [][Next]_vars

\* The records of one module saved one after the other: one of each variant,
\* all of the same name.
SiblingItems == DocItems({"foo"}, {<<"a">>}, SavedKinds, {None}, {NoLinks})

InitSeq == InitWith(SiblingItems, {"alpha"}, {{}})

NextSeq ==
    \/ NextItem(SiblingItems)
    \/ SaveResolve
    \/ SavePush
    \/ SaveCreateDirs
    \/ SaveSerialize
    \/ SaveWrite

SpecSeq == InitSeq /\ [][NextSeq]_vars

\* The records the pure operations are applied to: every variant and trait
\* item kind, every visibility, links in two categories.
PureItems ==
    DocItems(Names, {SubSeq(Segments, 1, k) : k \in 0..MaxDepth}, InnerData,
             VisibilityOptions, {NoLinks})

PureCategories == {"Function", "Macro"}

InitItem == InitWith(PureItems, {"alpha"}, {{}})

NextItemOps ==
    \/ InsertCategory(PureCategories)
    \/ PushLink
    \/ Classify
    \/ ToFilepath
    \/ ShowVisibility
    \/ Serialize
    \/ Deserialize

SpecItem == InitItem /\ [][NextItemOps]_vars

\* The records subitems() is applied to: one of each variant, links in any
\* of the fifteen categories.
RenderedItems == DocItems({"foo"}, {<<"a">>}, SavedKinds, {None}, {NoLinks})

InitRender == InitWith(RenderedItems, {"alpha"}, {{}})

NextRender ==
    \/ InsertCategory(Range(DocTypes))
    \/ PushLink
    \/ Render

SpecRender == InitRender /\ [][NextRender]_vars

(***************************************************************************)
(* The properties.                                                         *)
(***************************************************************************)
\* The classification table: variant (and trait item kind) -> DocType.
ExpectedDocType(d) ==
    CASE d.tag = "FnDoc"     -> "Function"
      [] d.tag = "ModuleDoc" -> "Module"
      [] d.tag = "EnumDoc"   -> "Enum"
      [] d.tag = "StructDoc" -> "Struct"
      [] d.tag = "ConstDoc"  -> "Const"
      [] d.tag = "TraitDoc"  -> "Trait"
      [] d.tag = "TraitItemDoc" /\ d.node = "Const"  -> "TraitItemConst"
      [] d.tag = "TraitItemDoc" /\ d.node = "Method" -> "TraitItemMethod"
      [] d.tag = "TraitItemDoc" /\ d.node = "Type"   -> "TraitItemType"
      [] d.tag = "TraitItemDoc" /\ d.node = "Macro"  -> "TraitItemMacro"

\* C1: every call of get_type on a record returns the DocType the table
\* gives for its variant (for a trait item, for its kind), whatever the
\* record's name, attrs, mod_path, visibility and links: all the calls on
\* one record return the same DocType.
C1_ClassifyByVariant ==
    /\ classified \subseteq Range(DocTypes)
    /\ \A t \in classified : t = ExpectedDocType(item.inner_data)
    /\ \A n \in Names, v \in VisibilityOptions, l \in {NoLinks, SomeLinks} :
          classified \subseteq
              {get_type([item EXCEPT !.name = n, !.visibility = v, !.links = l,
                                     !.mod_path = <<>>, !.attrs = 1])}

C1_Witness ==
    /\ classified = {"TraitItemMacro"}
    /\ item.visibility = Some("Public")
    /\ item.mod_path # <<>>
    /\ \E c \in DOMAIN item.links : Len(item.links[c]) = 2

\* The filename prefix table: variant -> prefix.
ExpectedPrefix(tag) ==
    CASE tag = "ModuleDoc" -> "mdesc-"
      [] tag = "EnumDoc"   -> "edesc-"
      [] tag = "StructDoc" -> "sdesc-"
      [] tag = "ConstDoc"  -> "cdesc-"
      [] tag = "TraitDoc"  -> "tdesc-"
      [] tag = "FnDoc"     -> ""
      [] tag = "TraitItemDoc" -> ""

\* C2: to_filepath returns the directories of mod_path followed by the file
\* <prefix><name>.odoc, the prefix being the table's for the variant,
\* whatever the links, the visibility and the attrs.
C2_PathIsModPathThenPrefixedName ==
    is_some(filepath) =>
        unwrap(filepath) =
            item.mod_path \o
            <<ExpectedPrefix(item.inner_data.tag) \o item.name \o ".odoc">>

\* A ModuleDoc named foo at a::b, with links and a visibility: a/b/mdesc-foo.odoc.
C2_Witness ==
    /\ item.inner_data.tag = "ModuleDoc"
    /\ item.name = "foo"
    /\ item.mod_path = <<"a", "b">>
    /\ item.links # NoLinks
    /\ is_some(item.visibility)
    /\ filepath = Some(<<"a", "b", "mdesc-foo.odoc">>)

\* C3: the path to_filepath returns has no component that is the root
\* placeholder (and to_filepath does return: the strip does not fail).
C3_NoRootPlaceholder ==
    is_some(filepath) =>
        /\ unwrap(filepath) # Panic
        /\ \A i \in 1..Len(unwrap(filepath)) : unwrap(filepath)[i] # RootPlaceholder

C3_Witness ==
    /\ is_some(filepath)
    /\ Len(item.mod_path) = 2
    /\ Len(unwrap(filepath)) = 3

\* C8: deserializing the bytes a record was serialized to gives a record
\* equal to it: the variant, the trait item kind, the visibility, the links
\* of every category in their order.
C8_RoundTrip == is_some(decoded) => unwrap(decoded) = item

\* A trait item with two categories of links, one of them holding y before x.
C8_Witness ==
    /\ is_some(decoded)
    /\ item.inner_data.tag = "TraitItemDoc"
    /\ Cardinality(DOMAIN item.links) = 2
    /\ \E c \in DOMAIN item.links :
          /\ Len(item.links[c]) = 2
          /\ item.links[c][1].name = "y"
          /\ item.links[c][2].name = "x"

\* C9: Display writes "pub" for the visibility Public and nothing for any
\* other one, and the visibility does not enter the path to_filepath returns.
C9_PubOnlyForPublic ==
    /\ is_some(shown) =>
          /\ (unwrap(shown) = "pub") <=> (item.visibility = Some("Public"))
          /\ item.visibility # Some("Public") => unwrap(shown) = ""
    /\ is_some(filepath) =>
          \A v \in VisibilityOptions :
              to_filepath([item EXCEPT !.visibility = v]) = unwrap(filepath)

C9_Witness ==
    /\ shown = Some("")
    /\ item.visibility = Some("Restricted")

\* The subcategories of each kind of record, in their order.
ExpectedCategories(tag) ==
    CASE tag = "ModuleDoc" -> <<"Function", "Module", "Enum", "Struct", "Trait", "Const">>
      [] tag = "TraitDoc"  -> <<"AssocConst", "TraitItemMethod", "AssocType", "Macro">>
      [] tag = "StructDoc" -> <<"StructField", "Function", "AssocConst", "AssocType", "Macro">>
      [] tag = "EnumDoc"   -> <<"Function", "Variant">>
      [] tag \in {"FnDoc", "ConstDoc", "TraitItemDoc"} -> <<>>

\* The sections of a rendering: its lines, cut at the blank lines.
RECURSIVE SplitBlank(_, _)
SplitBlank(ls, cur) ==
    IF Len(ls) = 0 THEN <<cur>>
    ELSE IF Head(ls) = "" THEN <<cur>> \o SplitBlank(Tail(ls), <<>>)
    ELSE SplitBlank(Tail(ls), Append(cur, Head(ls)))

Sections(ls) == IF Len(ls) = 0 THEN <<>> ELSE SplitBlank(ls, <<>>)

Header(c) == "==== " \o DocType_fmt(c)

\* C4: the rendering has a section for the category c exactly when c is a
\* subcategory of the record's kind and links[c] is present and not empty;
\* the section is the header line of c followed by the names of links[c] in
\* their stored order; there is no other section.
C4_SectionIffListedAndNonEmpty ==
    is_some(rendered) =>
        LET secs == Sections(unwrap(rendered))
            listed == Range(ExpectedCategories(item.inner_data.tag))
        IN /\ \A i \in 1..Len(secs) :
                 /\ Len(secs[i]) > 0
                 /\ \E c \in Range(DocTypes) : secs[i][1] = Header(c)
           /\ \A c \in Range(DocTypes) :
                 LET at == {i \in 1..Len(secs) : secs[i][1] = Header(c)}
                     due == /\ c \in listed
                            /\ c \in DOMAIN item.links
                            /\ item.links[c] # <<>>
                 IN /\ due <=> at # {}
                    /\ Cardinality(at) <= 1
                    /\ \A i \in at : Tail(secs[i]) = LinkNamesOf(item.links[c])

\* A module with a Function link and an empty Struct list: a Functions
\* section and no Structs section.
C4_Witness ==
    /\ item.inner_data.tag = "ModuleDoc"
    /\ DOMAIN item.links = {"Function", "Struct"}
    /\ Len(item.links["Function"]) = 1
    /\ item.links["Struct"] = <<>>
    /\ rendered = Some(<<"==== Functions", item.links["Function"][1].name>>)

\* C5: the sections come in the order of the kind's subcategory list, and
\* exactly one blank line stands between two sections (none before the
\* first, none after the last).
C5_SectionsInListOrder ==
    is_some(rendered) =>
        LET ls == unwrap(rendered)
            order == ExpectedCategories(item.inner_data.tag)
            ishead(l) == \E c \in Range(DocTypes) : l = Header(c)
            cat(l) == CHOOSE c \in Range(DocTypes) : l = Header(c)
            heads == SelectSeq(ls, ishead)
        IN /\ \A i \in 1..Len(heads) : cat(heads[i]) \in Range(order)
           /\ \A i, j \in 1..Len(heads) :
                 i < j => IndexOf(order, cat(heads[i])) < IndexOf(order, cat(heads[j]))
           /\ \A i \in 1..Len(ls) :
                 /\ ls[i] = "" => /\ 1 < i /\ i < Len(ls)
                                  /\ ls[i - 1] # ""
                                  /\ ishead(ls[i + 1])
                 /\ ishead(ls[i]) /\ i > 1 => ls[i - 1] = ""

\* A struct with a field and a function: Struct Fields, a blank line,
\* Functions.
C5_Witness ==
    /\ item.inner_data.tag = "StructDoc"
    /\ DOMAIN item.links = {"Function", "StructField"}
    /\ Len(item.links["Function"]) = 1
    /\ Len(item.links["StructField"]) = 1
    /\ rendered = Some(<<"==== Struct Fields", item.links["StructField"][1].name, "",
                         "==== Functions", item.links["Function"][1].name>>)

\* The steps of save, in their order.
SaveSteps == <<"resolve", "path", "create_dir_all", "serialize", "write">>

\* C6: the steps a save attempts are a prefix of resolve, path,
\* create_dir_all, serialize, write, each attempted once; no step follows a
\* failed one, and a failed step makes save return Err; the directories
\* change only once create_dir_all is attempted and the files only once
\* write is.
C6_StepsInOrderStopAtFailure ==
    /\ Len(steps) <= Len(SaveSteps)
    /\ \A i \in 1..Len(steps) : steps[i].step = SaveSteps[i]
    /\ \A i \in 1..(Len(steps) - 1) : steps[i].ok
    /\ (steps # <<>> /\ ~steps[Len(steps)].ok) => (pc = "idle" /\ result = "Err")
    /\ result = "Ok" => (Len(steps) = Len(SaveSteps) /\ \A i \in 1..Len(steps) : steps[i].ok)
    /\ (steps # <<>> /\ Len(steps) < 3) => dirs = before.dirs
    /\ (steps # <<>> /\ Len(steps) < 5) => files = before.files

\* A save whose serialization failed: the directories are there, no file is.
C6_Witness ==
    /\ pc = "idle"
    /\ result = "Err"
    /\ Len(steps) = 4
    /\ ~steps[4].ok
    /\ dirs # before.dirs
    /\ files = before.files

\* C7: a save no step of which failed returns Ok; afterwards the directories
\* of the crate root and of every mod_path segment below it exist, and the
\* file root + to_filepath(item) holds the bytes of the record; no other
\* file and no directory outside that chain has appeared or changed.
C7_SaveCreatesDirsAndFile ==
    (pc = "idle" /\ result # "none" /\ \A i \in 1..Len(steps) : steps[i].ok) =>
        LET root == get_crate_doc_path(crate)
        IN /\ result = "Ok"
           /\ path = root \o to_filepath(item)
           /\ parent(path) = root \o item.mod_path
           /\ \A k \in 1..Len(parent(path)) : SubSeq(path, 1, k) \in dirs
           /\ before.dirs \subseteq dirs
           /\ dirs \ before.dirs \subseteq Ancestors(parent(path))
           /\ path \in DOMAIN files
           /\ files[path] = data
           /\ deserialize(files[path]) = item
           /\ DOMAIN files = DOMAIN before.files \cup {path}
           /\ \A q \in DOMAIN before.files \ {path} : files[q] = before.files[q]

\* A save into an empty tree of a record two modules deep.
C7_Witness ==
    /\ pc = "idle"
    /\ result = "Ok"
    /\ before.dirs = {}
    /\ Len(item.mod_path) = 2
    /\ Cardinality(dirs) = 4
    /\ Cardinality(DOMAIN files) = 1

\* Two variants share a file name exactly when they are the same or are
\* FnDoc and TraitItemDoc.
SamePrefix(s, t) == s = t \/ {s, t} = {"FnDoc", "TraitItemDoc"}

Wrote(e) == Len(e.steps) = Len(SaveSteps)

\* C10: two records of the same mod_path and name have the same path exactly
\* when their variants share a prefix (a FnDoc and a TraitItemDoc do, two
\* different prefixed kinds never); the file of a path holds the record of
\* the last save that wrote it, when that save returned Ok, so of two
\* records saved to one path only the last remains.
C10_SamePathIffSamePrefix ==
    LET saved == {log[i].item : i \in 1..Len(log)} \cup {item}
    IN /\ \A a, b \in saved :
             (a.mod_path = b.mod_path /\ a.name = b.name) =>
                 (to_filepath(a) = to_filepath(b)
                     <=> SamePrefix(a.inner_data.tag, b.inner_data.tag))
       /\ \A i \in 1..Len(log) :
             (/\ log[i].result = "Ok"
              /\ \A j \in (i + 1)..Len(log) : ~(Wrote(log[j]) /\ log[j].path = log[i].path))
             => /\ log[i].path \in DOMAIN files
                /\ deserialize(files[log[i].path]) = log[i].item
       /\ DOMAIN files \subseteq {log[i].path : i \in {j \in 1..Len(log) : Wrote(log[j])}}
       /\ \A i, j \in 1..Len(log) :
             (/\ Wrote(log[i]) /\ Wrote(log[j])
              /\ SamePrefix(log[i].item.inner_data.tag, log[j].item.inner_data.tag)
              /\ log[i].item.name = log[j].item.name
              /\ log[i].item.mod_path = log[j].item.mod_path)
             => log[i].path = log[j].path

\* A FnDoc saved, then a TraitItemDoc of the same name and module: one file,
\* holding the trait item.
C10_Witness ==
    /\ Len(log) = 2
    /\ log[1].result = "Ok"
    /\ log[2].result = "Ok"
    /\ log[1].item.inner_data.tag = "FnDoc"
    /\ log[2].item.inner_data.tag = "TraitItemDoc"
    /\ Cardinality(DOMAIN files) = 1
    /\ deserialize(files[log[2].path]) = log[2].item

====
